---- MODULE Spec2Model ----
(***************************************************************************)
(* Model of the pyDcop command layer:                                      *)
(*   - pydcop/commands/run.py        (the "run" command, its timeout and   *)
(*                                    forced-exit handlers, _results)      *)
(*   - pydcop/commands/distribute.py (the "distribute" command)            *)
(*                                                                         *)
(* Python's None is the empty sequence <<>> and a present value v is <<v>>, *)
(* so that optional numbers and optional strings compare safely.           *)
(***************************************************************************)
EXTENDS Integers, Sequences, FiniteSets, TLC

VARIABLES
    args,           \* run: the parsed command line (argparse namespace)
    pc,             \* run: position of the main control path in run_cmd
    period,         \* run: local variable `period` of run_cmd
    collect_on,     \* run: module global collect_on
    run_metrics,    \* run: module global run_metrics
    end_metrics,    \* run: module global end_metrics
    orchestrator,   \* run: module global orchestrator (None or the built one)
    calls,          \* run: orchestrator methods called, per control path
    returned,       \* run: main-path orchestrator calls that returned normally
    ready,          \* run: what wait_ready returned (None until it returns)
    exc,            \* run: exception in flight / caught on the main path
    failedIn,       \* run: the main-path call that raised (None if none)
    tpc,            \* run: position of the timer thread inside on_timeout
    tphase,         \* run: main-path position when on_timeout fired
    fpc,            \* run: position of the signal handler on_force_exit
    fphase,         \* run: main-path position when on_force_exit last fired
    signals,        \* run: number of termination signals delivered so far
    stdout,         \* run: Run Reports printed on stdout, in order
    csv,            \* run: lines appended to csv sinks by _results
    exitCode,       \* run: code run.py passed to sys.exit (None if it did not)
    dargs,          \* distribute: the parsed command line
    dpc,            \* distribute: position in distribute.run_cmd
    dist_module,    \* distribute: local dist_module
    algo_module,    \* distribute: local algo_module
    graph_module,   \* distribute: local graph_module
    cg,             \* distribute: computation graph built (None or graph model)
    distCall,       \* distribute: arguments distribute() was called with
    dist,           \* distribute: distribution.mapping() (None until obtained)
    cost,           \* distribute: local cost
    dout,           \* distribute: documents printed on stdout
    dfile,          \* distribute: document written to the --output file
    derror,         \* distribute: the ImpossibleDistributionException caught
    dexit           \* distribute: process exit code (None while running)

runVars == <<args, pc, period, collect_on, run_metrics, end_metrics,
             orchestrator, calls, returned, ready, exc, failedIn, tpc, tphase,
             fpc, fphase, signals, stdout, csv, exitCode>>
distVars == <<dargs, dpc, dist_module, algo_module, graph_module, cg,
              distCall, dist, cost, dout, dfile, derror, dexit>>
vars == <<runVars, distVars>>

None == <<>>
Some(x) == <<x>>

(***************************************************************************)
(* Bounds of the model                                                     *)
(***************************************************************************)
\* Number of termination signals the environment delivers in one run.
MaxSignals == 1

\* An explicit --period value; it differs from the default period.
ExplicitPeriod == 2

(***************************************************************************)
(* run.py: command line                                                    *)
(***************************************************************************)
CollectModes == {"value_change", "cycle_change", "period"}
Modes == {"thread", "process"}

RunArgs ==
    [collect_on  : CollectModes,
     period      : {None, Some(ExplicitPeriod)},
     mode        : Modes,
     run_metrics : {None, Some("run.csv")},
     end_metrics : {None, Some("end.csv")}]

\* `period = 1 if args.period is None else args.period`
DefaultPeriod == 1

(***************************************************************************)
(* commands/_utils.py: _error(msg) reports the message and terminates the  *)
(* process; control never returns to the caller.                           *)
(***************************************************************************)
AfterError == "exited"

(***************************************************************************)
(* run.py: run_cmd, up to the construction of the orchestrator             *)
(***************************************************************************)
InitRun ==
    /\ args \in RunArgs
    /\ pc = "start"
    /\ period = None
    /\ collect_on = None
    /\ run_metrics = None
    /\ end_metrics = None
    /\ orchestrator = None
    /\ calls = [main |-> <<>>, timeout |-> <<>>, force |-> <<>>]
    /\ returned = {}
    /\ ready = None
    /\ exc = None
    /\ failedIn = None
    /\ tpc = "idle"
    /\ tphase = None
    /\ fpc = "idle"
    /\ fphase = None
    /\ signals = 0
    /\ stdout = <<>>
    /\ csv = <<>>
    /\ exitCode = None
    /\ dargs = None
    /\ dpc = "off"
    /\ dist_module = None
    /\ algo_module = None
    /\ graph_module = None
    /\ cg = None
    /\ distCall = None
    /\ dist = None
    /\ cost = None
    /\ dout = <<>>
    /\ dfile = None
    /\ derror = None
    /\ dexit = None

\* A signal handler runs on the main thread: while on_force_exit is running,
\* the main control path is suspended.
MainRuns == fpc \in {"idle", "skipped", "done"}

\* Variant of PeriodFor without the default of the period mode.
PeriodFor_noDefault(c, p) == IF c = "period" THEN p ELSE None

\* The value of the local `period` after lines 190-196.
PeriodFor(c, p) ==
    IF c = "period"
    THEN (IF p = None THEN Some(DefaultPeriod) ELSE p)
    ELSE None

\* The condition under which lines 193-196 call _error.
PeriodRejected(c, p) == c # "period" /\ p # None

CheckPeriod ==
    /\ pc = "start"
    /\ MainRuns
    /\ collect_on' = Some(args.collect_on)
    /\ period' = PeriodFor(args.collect_on, args.period)
    /\ pc' = IF PeriodRejected(args.collect_on, args.period)
             THEN AfterError ELSE "setup"
    /\ UNCHANGED <<args, run_metrics, end_metrics, orchestrator, calls,
                   returned, ready, exc, failedIn, tpc, tphase, fpc, fphase,
                   signals, stdout, csv, exitCode, distVars>>

\* prepare_metrics_files, module / dcop / distribution / scenario loading,
\* computation graph, algo definition, collector thread.  None of them
\* assigns the module globals run_metrics and end_metrics.
Setup ==
    /\ pc = "setup"
    /\ MainRuns
    /\ pc' = "build"
    /\ UNCHANGED <<args, period, collect_on, run_metrics, end_metrics,
                   orchestrator, calls, returned, ready, exc, failedIn, tpc,
                   tphase, fpc, fphase, signals, stdout, csv, exitCode,
                   distVars>>

\* The orchestrator run_local_thread_dcop / run_local_process_dcop build.
BuiltOrchestrator(a, p) ==
    [mode           |-> a.mode,
     collect_moment |-> a.collect_on,
     period         |-> p,
     replication    |-> IF a.mode = "thread"
                        THEN Some("replication_method") ELSE None]

BuildOrchestrator ==
    /\ pc = "build"
    /\ MainRuns
    /\ orchestrator' = Some(BuiltOrchestrator(args, period))
    /\ pc' = "call_deploy"
    /\ UNCHANGED <<args, period, collect_on, run_metrics, end_metrics, calls,
                   returned, ready, exc, failedIn, tpc, tphase, fpc, fphase,
                   signals, stdout, csv, exitCode, distVars>>

(***************************************************************************)
(* run.py: run_cmd, the try block (lines 257-262)                          *)
(***************************************************************************)
\* One more orchestrator method called from a control path.
Called(path, method) == [calls EXCEPT ![path] = Append(@, method)]

\* The exceptions the orchestrator's blocking calls fail with.
DeployErrors == {"DeploymentError"}
ReplicationErrors == {"ImpossibleReplicationError", "Exception"}
RunErrors == {"Exception"}

DeployCall ==
    /\ pc = "call_deploy"
    /\ MainRuns
    /\ calls' = Called("main", "deploy_computations")
    /\ pc' = "in_deploy"
    /\ UNCHANGED <<args, period, collect_on, run_metrics, end_metrics,
                   orchestrator, returned, ready, exc, failedIn, tpc, tphase,
                   fpc, fphase, signals, stdout, csv, exitCode, distVars>>

\* Variant of DeployReturn that goes on to wait_ready without replication.
DeployReturn_skipsReplication ==
    /\ pc = "in_deploy"
    /\ MainRuns
    /\ returned' = returned \cup {"deploy_computations"}
    /\ pc' = "call_wait_ready"
    /\ UNCHANGED <<args, period, collect_on, run_metrics, end_metrics,
                   orchestrator, calls, ready, exc, failedIn, tpc, tphase,
                   fpc, fphase, signals, stdout, csv, exitCode, distVars>>

DeployReturn ==
    /\ pc = "in_deploy"
    /\ MainRuns
    /\ returned' = returned \cup {"deploy_computations"}
    /\ pc' = "call_replication"
    /\ UNCHANGED <<args, period, collect_on, run_metrics, end_metrics,
                   orchestrator, calls, ready, exc, failedIn, tpc, tphase,
                   fpc, fphase, signals, stdout, csv, exitCode, distVars>>

DeployRaise ==
    /\ pc = "in_deploy"
    /\ MainRuns
    /\ \E e \in DeployErrors :
          /\ exc' = Some(e)
          /\ failedIn' = Some([call |-> "deploy_computations", error |-> e])
    /\ pc' = "except"
    /\ UNCHANGED <<args, period, collect_on, run_metrics, end_metrics,
                   orchestrator, calls, returned, ready, tpc, tphase, fpc,
                   fphase, signals, stdout, csv, exitCode, distVars>>

ReplicationCall ==
    /\ pc = "call_replication"
    /\ MainRuns
    /\ calls' = Called("main", "start_replication")
    /\ pc' = "in_replication"
    /\ UNCHANGED <<args, period, collect_on, run_metrics, end_metrics,
                   orchestrator, returned, ready, exc, failedIn, tpc, tphase,
                   fpc, fphase, signals, stdout, csv, exitCode, distVars>>

ReplicationReturn ==
    /\ pc = "in_replication"
    /\ MainRuns
    /\ returned' = returned \cup {"start_replication"}
    /\ pc' = "call_wait_ready"
    /\ UNCHANGED <<args, period, collect_on, run_metrics, end_metrics,
                   orchestrator, calls, ready, exc, failedIn, tpc, tphase,
                   fpc, fphase, signals, stdout, csv, exitCode, distVars>>

ReplicationRaise ==
    /\ pc = "in_replication"
    /\ MainRuns
    /\ \E e \in ReplicationErrors :
          /\ exc' = Some(e)
          /\ failedIn' = Some([call |-> "start_replication", error |-> e])
    /\ pc' = "except"
    /\ UNCHANGED <<args, period, collect_on, run_metrics, end_metrics,
                   orchestrator, calls, returned, ready, tpc, tphase, fpc,
                   fphase, signals, stdout, csv, exitCode, distVars>>

WaitReadyCall ==
    /\ pc = "call_wait_ready"
    /\ MainRuns
    /\ calls' = Called("main", "wait_ready")
    /\ pc' = "in_wait_ready"
    /\ UNCHANGED <<args, period, collect_on, run_metrics, end_metrics,
                   orchestrator, returned, ready, exc, failedIn, tpc, tphase,
                   fpc, fphase, signals, stdout, csv, exitCode, distVars>>

\* Where `if orchestrator.wait_ready():` goes on result r; falling out of the
\* try block without an exception ends run_cmd.
\* Variant of AfterWaitReady that calls run whatever wait_ready returned.
AfterWaitReady_always(r) == "call_run"

AfterWaitReady(r) == IF r THEN "call_run" ELSE "returned"

WaitReadyReturn ==
    /\ pc = "in_wait_ready"
    /\ MainRuns
    /\ \E r \in BOOLEAN :
          /\ ready' = Some(r)
          /\ pc' = AfterWaitReady(r)
    /\ returned' = returned \cup {"wait_ready"}
    /\ UNCHANGED <<args, period, collect_on, run_metrics, end_metrics,
                   orchestrator, calls, exc, failedIn, tpc, tphase, fpc,
                   fphase, signals, stdout, csv, exitCode, distVars>>

WaitReadyRaise ==
    /\ pc = "in_wait_ready"
    /\ MainRuns
    /\ \E e \in RunErrors :
          /\ exc' = Some(e)
          /\ failedIn' = Some([call |-> "wait_ready", error |-> e])
    /\ pc' = "except"
    /\ UNCHANGED <<args, period, collect_on, run_metrics, end_metrics,
                   orchestrator, calls, returned, ready, tpc, tphase, fpc,
                   fphase, signals, stdout, csv, exitCode, distVars>>

RunCall ==
    /\ pc = "call_run"
    /\ MainRuns
    /\ calls' = Called("main", "run")
    /\ pc' = "in_run"
    /\ UNCHANGED <<args, period, collect_on, run_metrics, end_metrics,
                   orchestrator, returned, ready, exc, failedIn, tpc, tphase,
                   fpc, fphase, signals, stdout, csv, exitCode, distVars>>

\* run(scenario) returns: nothing follows it in the try block.
RunReturn ==
    /\ pc = "in_run"
    /\ MainRuns
    /\ returned' = returned \cup {"run"}
    /\ pc' = "returned"
    /\ UNCHANGED <<args, period, collect_on, run_metrics, end_metrics,
                   orchestrator, calls, ready, exc, failedIn, tpc, tphase,
                   fpc, fphase, signals, stdout, csv, exitCode, distVars>>

RunRaise ==
    /\ pc = "in_run"
    /\ MainRuns
    /\ \E e \in RunErrors :
          /\ exc' = Some(e)
          /\ failedIn' = Some([call |-> "run", error |-> e])
    /\ pc' = "except"
    /\ UNCHANGED <<args, period, collect_on, run_metrics, end_metrics,
                   orchestrator, calls, returned, ready, tpc, tphase, fpc,
                   fphase, signals, stdout, csv, exitCode, distVars>>

(***************************************************************************)
(* run.py: _results (lines 280-295)                                        *)
(***************************************************************************)
\* `def _results(status)`: the number of parameters it accepts.
ResultsParams == 1
\* Number of arguments at each call site of _results.
ErrorCallArgs == 2      \* _results('ERROR', e)
TimeoutCallArgs == 1    \* _results('TIMEOUT')
ForceCallArgs == 1      \* _results('STOPPED')

\* A call with the wrong number of arguments raises TypeError before the
\* body of the function runs.
Accepted(nargs) == nargs = ResultsParams

\* The lines add_csvline appends: one per module global that is not None.
CsvLines(status) ==
    (IF end_metrics # None
     THEN <<[file |-> end_metrics[1], status |-> status]>> ELSE <<>>)
    \o
    (IF run_metrics # None
     THEN <<[file |-> run_metrics[1], status |-> status]>> ELSE <<>>)

\* The body of _results(status), run on control path `path`.
Results(path, status) ==
    /\ calls' = Called(path, "end_metrics")
    /\ csv' = csv \o CsvLines(status)
    /\ stdout' = Append(stdout, [status |-> status, by |-> path])

(***************************************************************************)
(* run.py: run_cmd, the except block (lines 263-272)                       *)
(***************************************************************************)
ExceptStopAgents ==
    /\ pc = "except"
    /\ MainRuns
    /\ calls' = Called("main", "stop_agents")
    /\ pc' = "except_stop"
    /\ UNCHANGED <<args, period, collect_on, run_metrics, end_metrics,
                   orchestrator, returned, ready, exc, failedIn, tpc, tphase,
                   fpc, fphase, signals, stdout, csv, exitCode, distVars>>

ExceptStop ==
    /\ pc = "except_stop"
    /\ MainRuns
    /\ calls' = Called("main", "stop")
    /\ pc' = "except_results"
    /\ UNCHANGED <<args, period, collect_on, run_metrics, end_metrics,
                   orchestrator, returned, ready, exc, failedIn, tpc, tphase,
                   fpc, fphase, signals, stdout, csv, exitCode, distVars>>

\* `_results('ERROR', e)`
ExceptResults ==
    /\ pc = "except_results"
    /\ MainRuns
    /\ IF Accepted(ErrorCallArgs)
       THEN /\ Results("main", "ERROR")
            /\ pc' = "returned"
            /\ UNCHANGED exc
       ELSE /\ exc' = Some("TypeError")
            /\ pc' = "raised"
            /\ UNCHANGED <<calls, csv, stdout>>
    /\ UNCHANGED <<args, period, collect_on, run_metrics, end_metrics,
                   orchestrator, returned, ready, failedIn, tpc, tphase, fpc,
                   fphase, signals, exitCode, distVars>>

(***************************************************************************)
(* run.py: _orchestrator_error (lines 275-277), the handler registered at  *)
(* line 255.  The orchestrator invokes it on an unrecoverable error while  *)
(* the run is in progress; sys.exit(2) raises SystemExit, which            *)
(* `except Exception` does not catch.                                      *)
(***************************************************************************)
OrchestratorErrorCode == 2

OrchestratorError ==
    /\ pc = "in_run"
    /\ MainRuns
    /\ exitCode' = Some(OrchestratorErrorCode)
    /\ pc' = "exited"
    /\ UNCHANGED <<args, period, collect_on, run_metrics, end_metrics,
                   orchestrator, calls, returned, ready, exc, failedIn, tpc,
                   tphase, fpc, fphase, signals, stdout, csv, distVars>>

(***************************************************************************)
(* run.py: on_timeout (lines 298-304), run by the timer thread             *)
(***************************************************************************)
\* Variant of OnTimeout without the test `if orchestrator is None: return`.
OnTimeout_noCheck ==
    /\ tpc = "idle"
    /\ tphase' = Some(pc)
    /\ calls' = Called("timeout", "stop_agents")
    /\ tpc' = "stop"
    /\ UNCHANGED <<args, pc, period, collect_on, run_metrics, end_metrics,
                   orchestrator, returned, ready, exc, failedIn, fpc, fphase,
                   signals, stdout, csv, exitCode, distVars>>

OnTimeout ==
    /\ tpc = "idle"
    /\ tphase' = Some(pc)
    /\ IF orchestrator = None
       THEN /\ tpc' = "skipped"
            /\ UNCHANGED calls
       ELSE /\ calls' = Called("timeout", "stop_agents")
            /\ tpc' = "stop"
    /\ UNCHANGED <<args, pc, period, collect_on, run_metrics, end_metrics,
                   orchestrator, returned, ready, exc, failedIn, fpc, fphase,
                   signals, stdout, csv, exitCode, distVars>>

OnTimeoutStop ==
    /\ tpc = "stop"
    /\ calls' = Called("timeout", "stop")
    /\ tpc' = "results"
    /\ UNCHANGED <<args, pc, period, collect_on, run_metrics, end_metrics,
                   orchestrator, returned, ready, exc, failedIn, tphase, fpc,
                   fphase, signals, stdout, csv, exitCode, distVars>>

OnTimeoutResults ==
    /\ tpc = "results"
    /\ IF Accepted(TimeoutCallArgs)
       THEN /\ Results("timeout", "TIMEOUT")
            /\ tpc' = "done"
       ELSE /\ tpc' = "raised"
            /\ UNCHANGED <<calls, csv, stdout>>
    /\ UNCHANGED <<args, pc, period, collect_on, run_metrics, end_metrics,
                   orchestrator, returned, ready, exc, failedIn, tphase, fpc,
                   fphase, signals, exitCode, distVars>>

(***************************************************************************)
(* run.py: on_force_exit (lines 307-316), run as a signal handler          *)
(***************************************************************************)
\* calls.force holds the calls of the current invocation of the handler.
OnForceExit ==
    /\ fpc \in {"idle", "skipped", "done"}
    /\ signals < MaxSignals
    /\ signals' = signals + 1
    /\ fphase' = Some(pc)
    /\ IF orchestrator = None
       THEN /\ fpc' = "skipped"
            /\ calls' = [calls EXCEPT !["force"] = <<>>]
       ELSE /\ calls' = [calls EXCEPT !["force"] = <<"stop_agents">>]
            /\ fpc' = "stop"
    /\ UNCHANGED <<args, pc, period, collect_on, run_metrics, end_metrics,
                   orchestrator, returned, ready, exc, failedIn, tpc, tphase,
                   stdout, csv, exitCode, distVars>>

OnForceExitStop ==
    /\ fpc = "stop"
    /\ calls' = Called("force", "stop")
    /\ fpc' = "results"
    /\ UNCHANGED <<args, pc, period, collect_on, run_metrics, end_metrics,
                   orchestrator, returned, ready, exc, failedIn, tpc, tphase,
                   fphase, signals, stdout, csv, exitCode, distVars>>

\* Variant of OnForceExitResults that reports the status of a timeout.
OnForceExitResults_asTimeout ==
    /\ fpc = "results"
    /\ Results("force", "TIMEOUT")
    /\ fpc' = "done"
    /\ UNCHANGED <<args, pc, period, collect_on, run_metrics, end_metrics,
                   orchestrator, returned, ready, exc, failedIn, tpc, tphase,
                   fphase, signals, exitCode, distVars>>

OnForceExitResults ==
    /\ fpc = "results"
    /\ IF Accepted(ForceCallArgs)
       THEN /\ Results("force", "STOPPED")
            /\ fpc' = "done"
       ELSE /\ fpc' = "raised"
            /\ UNCHANGED <<calls, csv, stdout>>
    /\ UNCHANGED <<args, pc, period, collect_on, run_metrics, end_metrics,
                   orchestrator, returned, ready, exc, failedIn, tpc, tphase,
                   fphase, signals, exitCode, distVars>>

(***************************************************************************)
(* The run command                                                         *)
(***************************************************************************)
NextRun ==
    \/ CheckPeriod
    \/ Setup
    \/ BuildOrchestrator
    \/ DeployCall
    \/ DeployReturn
    \/ DeployRaise
    \/ ReplicationCall
    \/ ReplicationReturn
    \/ ReplicationRaise
    \/ WaitReadyCall
    \/ WaitReadyReturn
    \/ WaitReadyRaise
    \/ RunCall
    \/ RunReturn
    \/ RunRaise
    \/ ExceptStopAgents
    \/ ExceptStop
    \/ ExceptResults
    \/ OrchestratorError
    \/ OnTimeout
    \/ OnTimeoutStop
    \/ OnTimeoutResults
    \/ OnForceExit
    \/ OnForceExitStop
    \/ OnForceExitResults

SpecRun == InitRun /\ [][NextRun]_vars

(***************************************************************************)
(* distribute.py: command line                                             *)
(***************************************************************************)
GraphModels == {"factor_graph", "pseudotree", "constraints_hypergraph"}
DistMethods == {"oneagent", "adhoc", "ilp_fgdp", "ilp_compref", "heur_comhost"}
Algorithms == {"dsa", "maxsum"}

\* GRAPH_TYPE of an algorithm module: dsa works on a constraints graph,
\* maxsum on a factor graph.
GraphType(algo) ==
    IF algo = "maxsum" THEN "factor_graph" ELSE "constraints_hypergraph"

DistArgs ==
    [graph  : {None} \cup {Some(g) : g \in GraphModels},
     algo   : {None} \cup {Some(a) : a \in Algorithms},
     dist   : DistMethods,
     output : {None, Some("dist.yaml")}]

\* Costs a distribution module's distribution_cost may return.
Costs == {0, 7}

InitDistribute ==
    /\ dargs \in DistArgs
    /\ dpc = "load"
    /\ dist_module = None
    /\ algo_module = None
    /\ graph_module = None
    /\ cg = None
    /\ distCall = None
    /\ dist = None
    /\ cost = None
    /\ dout = <<>>
    /\ dfile = None
    /\ derror = None
    /\ dexit = None
    /\ args = None
    /\ pc = "off"
    /\ period = None
    /\ collect_on = None
    /\ run_metrics = None
    /\ end_metrics = None
    /\ orchestrator = None
    /\ calls = [main |-> <<>>, timeout |-> <<>>, force |-> <<>>]
    /\ returned = {}
    /\ ready = None
    /\ exc = None
    /\ failedIn = None
    /\ tpc = "off"
    /\ tphase = None
    /\ fpc = "off"
    /\ fphase = None
    /\ signals = 0
    /\ stdout = <<>>
    /\ csv = <<>>
    /\ exitCode = None

(***************************************************************************)
(* distribute.py: run_cmd (lines 184-260)                                  *)
(***************************************************************************)
\* Lines 187-195: the dcop, the distribution module (which may or may not
\* define distribution_cost) and, when --algo is given, the algorithm module.
LoadModules ==
    /\ dpc = "load"
    /\ \E hc \in BOOLEAN :
          dist_module' = Some([name |-> dargs.dist, has_cost |-> hc])
    /\ algo_module' = IF dargs.algo # None
                      THEN Some([name       |-> dargs.algo[1],
                                 GRAPH_TYPE |-> GraphType(dargs.algo[1])])
                      ELSE None
    /\ dpc' = "graph"
    /\ UNCHANGED <<dargs, graph_module, cg, distCall, dist, cost, dout, dfile,
                   derror, dexit, runVars>>

\* Variant of GraphRejected without the compatibility check of line 200.
GraphRejected_noCompatibility(graph, am) == graph = None /\ am = None

\* Lines 197-205: is _error called ?
GraphRejected(graph, am) ==
    IF graph # None
    THEN am # None /\ am[1].GRAPH_TYPE # graph[1]
    ELSE am = None

\* Lines 197-205: the graph module loaded.
GraphModuleFor(graph, am) ==
    IF graph # None THEN graph
    ELSE IF am # None THEN Some(am[1].GRAPH_TYPE)
    ELSE None

SelectGraph ==
    /\ dpc = "graph"
    /\ graph_module' = GraphModuleFor(dargs.graph, algo_module)
    /\ dpc' = IF GraphRejected(dargs.graph, algo_module)
              THEN AfterError ELSE "build"
    /\ UNCHANGED <<dargs, dist_module, algo_module, cg, distCall, dist, cost,
                   dout, dfile, derror, dexit, runVars>>

\* Line 210: cg = graph_module.build_computation_graph(dcop)
BuildGraph ==
    /\ dpc = "build"
    /\ cg' = Some([model |-> graph_module[1]])
    /\ dpc' = "distribute"
    /\ UNCHANGED <<dargs, dist_module, algo_module, graph_module, distCall,
                   dist, cost, dout, dfile, derror, dexit, runVars>>

\* Lines 215-220: the footprint callbacks handed to the distribution module.
Callback(am, name) ==
    IF am = None THEN None ELSE Some(<<am[1].name, name>>)

DistributeArgs ==
    [cg                 |-> cg[1],
     computation_memory |-> Callback(algo_module, "computation_memory"),
     communication_load |-> Callback(algo_module, "communication_load")]

\* Lines 223-228: distribute() returns a distribution.
DistributeReturn ==
    /\ dpc = "distribute"
    /\ distCall' = Some(DistributeArgs)
    /\ dist' = Some([on |-> cg[1].model, by |-> dist_module[1].name])
    /\ dpc' = "cost"
    /\ UNCHANGED <<dargs, dist_module, algo_module, graph_module, cg, cost,
                   dout, dfile, derror, dexit, runVars>>

\* Lines 223-227: distribute() raises ImpossibleDistributionException.
DistributeRaise ==
    /\ dpc = "distribute"
    /\ distCall' = Some(DistributeArgs)
    /\ derror' = Some("distribute")
    /\ dpc' = "fail"
    /\ UNCHANGED <<dargs, dist_module, algo_module, graph_module, cg, dist,
                   cost, dout, dfile, dexit, runVars>>

\* Lines 230-234: distribution_cost returns.
CostReturn ==
    /\ dpc = "cost"
    /\ dist_module[1].has_cost
    /\ \E c \in Costs : cost' = Some(c)
    /\ dpc' = "report"
    /\ UNCHANGED <<dargs, dist_module, algo_module, graph_module, cg, distCall,
                   dist, dout, dfile, derror, dexit, runVars>>

\* Lines 230-234: distribution_cost raises ImpossibleDistributionException.
CostRaise ==
    /\ dpc = "cost"
    /\ dist_module[1].has_cost
    /\ derror' = Some("distribution_cost")
    /\ dpc' = "fail"
    /\ UNCHANGED <<dargs, dist_module, algo_module, graph_module, cg, distCall,
                   dist, cost, dout, dfile, dexit, runVars>>

\* Lines 235-236: the module defines no distribution_cost.
NoCost ==
    /\ dpc = "cost"
    /\ ~ dist_module[1].has_cost
    /\ cost' = None
    /\ dpc' = "report"
    /\ UNCHANGED <<dargs, dist_module, algo_module, graph_module, cg, distCall,
                   dist, dout, dfile, derror, dexit, runVars>>

\* Lines 238-247
ResultDocument ==
    [inputs       |-> [dist_algo |-> dargs.dist,
                       graph     |-> dargs.graph,
                       algo      |-> dargs.algo],
     distribution |-> dist[1],
     cost         |-> cost]

\* Lines 255-258
FailDocument ==
    [status |-> "FAIL", error |-> derror[1]]

\* The exit codes of lines 252 and 260.
ExitSuccess == 0
ExitImpossible == 2

\* Lines 238-252
Report ==
    /\ dpc = "report"
    /\ dfile' = IF dargs.output # None THEN Some(ResultDocument) ELSE dfile
    /\ dout' = Append(dout, ResultDocument)
    /\ dexit' = Some(ExitSuccess)
    /\ dpc' = "exited"
    /\ UNCHANGED <<dargs, dist_module, algo_module, graph_module, cg, distCall,
                   dist, cost, derror, runVars>>

\* Variant of Fail that exits with the code of success.
Fail_exitsSuccess ==
    /\ dpc = "fail"
    /\ dout' = Append(dout, FailDocument)
    /\ dexit' = Some(ExitSuccess)
    /\ dpc' = "exited"
    /\ UNCHANGED <<dargs, dist_module, algo_module, graph_module, cg, distCall,
                   dist, cost, dfile, derror, runVars>>

\* Lines 254-260
Fail ==
    /\ dpc = "fail"
    /\ dout' = Append(dout, FailDocument)
    /\ dexit' = Some(ExitImpossible)
    /\ dpc' = "exited"
    /\ UNCHANGED <<dargs, dist_module, algo_module, graph_module, cg, distCall,
                   dist, cost, dfile, derror, runVars>>

(***************************************************************************)
(* The distribute command                                                  *)
(***************************************************************************)
NextDistribute ==
    \/ LoadModules
    \/ SelectGraph
    \/ BuildGraph
    \/ DistributeReturn
    \/ DistributeRaise
    \/ CostReturn
    \/ CostRaise
    \/ NoCost
    \/ Report
    \/ Fail

SpecDistribute == InitDistribute /\ [][NextDistribute]_vars

(***************************************************************************)
(* Properties of the run command                                           *)
(***************************************************************************)
IsPrefix(s, t) ==
    /\ Len(s) <= Len(t)
    /\ \A i \in 1..Len(s) : s[i] = t[i]

Has(seq, x) == \E i \in 1..Len(seq) : seq[i] = x

\* The phase operations of the orchestrator, in contract order.
PhaseOrder ==
    <<"deploy_computations", "start_replication", "wait_ready", "run">>
PhaseOps == {PhaseOrder[i] : i \in 1..Len(PhaseOrder)}

\* The phase operations a control path has called so far, in call order.
PhaseCalls(path) == SelectSeq(calls[path], LAMBDA m : m \in PhaseOps)

\* The shutdown path of the handlers.
ShutdownPath == <<"stop_agents", "stop", "end_metrics">>

\* C1: on the main path of run_cmd the phase operations called so far are
\* always a prefix of deploy_computations, start_replication, wait_ready,
\* run (so each is called at most once and in that order), and each one but
\* the first is called only after the previous one returned without raising:
\* a phase operation that raised is the last one called.
C1_PhaseCallsInOrder ==
    LET made == PhaseCalls("main") IN
    /\ IsPrefix(made, PhaseOrder)
    /\ \A i \in 2..Len(made) : PhaseOrder[i - 1] \in returned
    /\ failedIn # None =>
          /\ Len(made) >= 1
          /\ failedIn[1].call = made[Len(made)]
          /\ failedIn[1].call \notin returned

\* All four phase operations have been called and run has returned.
C1_Witness ==
    /\ PhaseCalls("main") = PhaseOrder
    /\ "run" \in returned

\* C2: once an exception raised by a phase operation has been handled and
\* run_cmd has ended, the main path has called stop_agents, stop and then
\* end_metrics, and a Run Report with status ERROR has been printed.
C2_ErrorIsReported ==
    (failedIn # None /\ pc \in {"returned", "raised"}) =>
        /\ \E n \in 0..Len(PhaseOrder) :
              calls.main = SubSeq(PhaseOrder, 1, n) \o ShutdownPath
        /\ Has(stdout, [status |-> "ERROR", by |-> "main"])

\* The main-path positions at which the orchestrator does not exist yet.
BeforeOrchestrator == {"start", "setup", "build", AfterError}

\* C3: a handler that fires when the orchestrator exists calls stop_agents,
\* stop and end_metrics in that order and nothing else, and when it has
\* finished it has printed a Run Report with its own status (TIMEOUT for
\* on_timeout, STOPPED for on_force_exit); a handler returns without doing
\* so only when it fired before the orchestrator was built.  No handler
\* prints a report with another status.
C3_HandlersShutDownAndReport ==
    /\ IsPrefix(calls.timeout, ShutdownPath)
    /\ IsPrefix(calls.force, ShutdownPath)
    /\ tpc \notin {"idle", "skipped"} => orchestrator # None
    /\ fpc \notin {"idle", "skipped"} => orchestrator # None
    /\ tpc = "skipped" => tphase[1] \in BeforeOrchestrator
    /\ fpc = "skipped" => fphase[1] \in BeforeOrchestrator
    /\ tpc # "raised" /\ fpc # "raised"
    /\ tpc = "done" =>
          /\ calls.timeout = ShutdownPath
          /\ Has(stdout, [status |-> "TIMEOUT", by |-> "timeout"])
    /\ fpc = "done" =>
          /\ calls.force = ShutdownPath
          /\ Has(stdout, [status |-> "STOPPED", by |-> "force"])
    /\ \A i \in 1..Len(stdout) :
          /\ stdout[i].by = "timeout" => stdout[i].status = "TIMEOUT"
          /\ stdout[i].by = "force" => stdout[i].status = "STOPPED"

\* on_timeout fired during deployment and on_force_exit during wait-ready,
\* and both have finished.
C3_Witness ==
    /\ tpc = "done" /\ tphase = Some("in_deploy")
    /\ fpc = "done" /\ fphase = Some("in_wait_ready")
    /\ Has(stdout, [status |-> "TIMEOUT", by |-> "timeout"])
    /\ Has(stdout, [status |-> "STOPPED", by |-> "force"])

\* Some control path has called method m on the orchestrator.
AnyPathCalled(m) ==
    Has(calls.main, m) \/ Has(calls.timeout, m) \/ Has(calls.force, m)

\* C4: when the main path of run_cmd has ended without an exception (run
\* returned, or wait_ready returned false), stop has been called on the
\* orchestrator and a Run Report has been printed.
C4_NormalEndShutsDownAndReports ==
    (pc = "returned" /\ failedIn = None) =>
        /\ AnyPathCalled("stop")
        /\ Len(stdout) >= 1

\* C5: at most one Run Report is printed in a run.
C5_AtMostOneReport == Len(stdout) <= 1

\* C6: run is called only by the main path, only after wait_ready returned
\* true and deploy_computations and start_replication returned normally;
\* in particular it is never called once wait_ready returned false or one
\* of the earlier phase operations raised.
C6_RunOnlyWhenReady ==
    /\ ~ Has(calls.timeout, "run") /\ ~ Has(calls.force, "run")
    /\ Has(calls.main, "run") =>
          /\ ready = Some(TRUE)
          /\ {"deploy_computations", "start_replication", "wait_ready"}
                \subseteq returned
    /\ pc \in {"call_run", "in_run"} => ready = Some(TRUE)
    /\ (ready = Some(FALSE)
        \/ (failedIn # None /\ failedIn[1].call # "run")) =>
          /\ ~ Has(calls.main, "run")
          /\ pc \notin {"call_run", "in_run"}

\* wait_ready returned false and run_cmd has ended.
C6_Witness ==
    /\ ready = Some(FALSE)
    /\ pc = "returned"
    /\ PhaseCalls("main") = SubSeq(PhaseOrder, 1, 3)

\* start_replication raised ImpossibleReplicationError.
ReplicationImpossible ==
    /\ failedIn # None
    /\ failedIn[1] = [call  |-> "start_replication",
                      error |-> "ImpossibleReplicationError"]

\* C7: when start_replication failed with an impossible replication, run is
\* never called, and when run_cmd has ended the process was terminated with
\* exit code 2.
C7_ImpossibleReplicationExits2 ==
    ReplicationImpossible =>
        /\ ~ Has(calls.main, "run")
        /\ pc \in {"returned", "raised", "exited"} => exitCode = Some(2)

\* C9: every Run Report printed by _results has a csv line with its status
\* in each metrics sink configured on the command line.
C9_ReportsReachCsvSinks ==
    \A i \in 1..Len(stdout) :
        /\ args.end_metrics # None =>
              Has(csv, [file   |-> args.end_metrics[1],
                        status |-> stdout[i].status])
        /\ args.run_metrics # None =>
              Has(csv, [file   |-> args.run_metrics[1],
                        status |-> stdout[i].status])

\* C10: the orchestrator is built with the given period, or 1 when none is
\* given, in period mode; with no period in the other modes when none is
\* given; and an explicit period in another mode ends the command before an
\* orchestrator is built or any orchestrator method is called.
C10_PeriodOnlyInPeriodMode ==
    /\ orchestrator # None =>
          /\ orchestrator[1].collect_moment = args.collect_on
          /\ args.collect_on = "period" =>
                orchestrator[1].period =
                    (IF args.period = None THEN Some(1) ELSE args.period)
          /\ args.collect_on # "period" =>
                /\ args.period = None
                /\ orchestrator[1].period = None
    /\ (args.collect_on # "period" /\ args.period # None) =>
          /\ pc \in {"start", "exited"}
          /\ orchestrator = None
          /\ calls = [main |-> <<>>, timeout |-> <<>>, force |-> <<>>]

\* An orchestrator built in period mode with no --period, and deployed.
C10_Witness ==
    /\ args.collect_on = "period"
    /\ args.period = None
    /\ orchestrator # None
    /\ orchestrator[1].period = Some(1)
    /\ Has(calls.main, "deploy_computations")

\* C11 as stated: end_metrics has been called, on whatever control path,
\* only when the main path has entered orchestrator.run(scenario).
C11_EndMetricsOnlyAfterRunEntered ==
    AnyPathCalled("end_metrics") => Has(calls.main, "run")

\* C11 as amended: end_metrics is called only on an orchestrator that has
\* been built, and on the calling control path only right after stop_agents
\* and stop; a handler that fired before the orchestrator was built never
\* calls it.
C11_EndMetricsOnlyOnBuiltOrchestrator ==
    /\ AnyPathCalled("end_metrics") => orchestrator # None
    /\ \A path \in {"main", "timeout", "force"} :
          \A i \in 1..Len(calls[path]) :
              calls[path][i] = "end_metrics" =>
                  /\ i >= 3
                  /\ calls[path][i - 2] = "stop_agents"
                  /\ calls[path][i - 1] = "stop"
    /\ Has(calls.timeout, "end_metrics") =>
          tphase[1] \notin {"start", "setup", "build"}
    /\ Has(calls.force, "end_metrics") =>
          fphase[1] \notin {"start", "setup", "build"}

\* on_timeout fired during deployment and has called end_metrics, while the
\* main path has not entered run.
C11_Witness ==
    /\ tphase = Some("in_deploy")
    /\ calls.timeout = ShutdownPath
    /\ ~ Has(calls.main, "run")

(***************************************************************************)
(* Properties of the distribute command                                    *)
(***************************************************************************)
\* C8: once distribute() has been called and the command has ended, exactly
\* one document has been printed: when neither distribute nor
\* distribution_cost raised, it has the fields inputs, distribution and
\* cost (the cost returned by distribution_cost when the module defines it,
\* null otherwise) and the exit code is 0; when one of them raised
\* ImpossibleDistributionException, it has status FAIL and an error
\* message, no distribution field, and the exit code is 2.  Nothing is
\* printed and no exit code is set before the command ends.
C8_TwoReportedOutcomes ==
    /\ dpc # "exited" => (dout = <<>> /\ dexit = None)
    /\ (dpc = "exited" /\ distCall # None) =>
          /\ Len(dout) = 1
          /\ IF derror = None
             THEN /\ dist # None
                  /\ DOMAIN dout[1] = {"inputs", "distribution", "cost"}
                  /\ dout[1].inputs = [dist_algo |-> dargs.dist,
                                       graph     |-> dargs.graph,
                                       algo      |-> dargs.algo]
                  /\ dout[1].distribution = dist[1]
                  /\ IF dist_module[1].has_cost
                     THEN dout[1].cost # None /\ dout[1].cost[1] \in Costs
                     ELSE dout[1].cost = None
                  /\ dexit = Some(0)
             ELSE /\ DOMAIN dout[1] = {"status", "error"}
                  /\ dout[1].status = "FAIL"
                  /\ dexit = Some(2)

\* distribute() returned, distribution_cost raised, and the command ended.
C8_Witness ==
    /\ dpc = "exited"
    /\ dist # None
    /\ derror = Some("distribution_cost")
    /\ dexit = Some(2)

\* --graph and --algo name different graph models, or neither is given.
BadPairing ==
    \/ /\ dargs.graph # None
       /\ dargs.algo # None
       /\ GraphType(dargs.algo[1]) # dargs.graph[1]
    \/ /\ dargs.graph = None
       /\ dargs.algo = None

\* C12: with an incompatible --graph / --algo pair, or with neither option,
\* the command ends without building a computation graph, calling
\* distribute or printing a result; with only --algo the graph built is of
\* the algorithm's GRAPH_TYPE; with only --graph distribute is called with
\* computation_memory and communication_load both None.
C12_PreconditionsAreFatal ==
    /\ BadPairing =>
          /\ dpc \in {"load", "graph", "exited"}
          /\ cg = None
          /\ distCall = None
          /\ dist = None
          /\ dout = <<>>
          /\ dexit = None
    /\ (dargs.graph = None /\ dargs.algo # None) =>
          /\ cg # None => cg[1].model = GraphType(dargs.algo[1])
          /\ distCall # None =>
                distCall[1].cg.model = GraphType(dargs.algo[1])
    /\ (dargs.graph # None /\ dargs.algo = None) =>
          /\ cg # None => cg[1].model = dargs.graph[1]
          /\ distCall # None =>
                /\ distCall[1].computation_memory = None
                /\ distCall[1].communication_load = None
                /\ distCall[1].cg.model = dargs.graph[1]
    /\ dpc \in {"distribute", "cost", "report", "fail"} => cg # None
    /\ dpc \in {"cost", "report"} => distCall # None

\* An incompatible pair was given and the command has ended at the check.
C12_Witness ==
    /\ dargs.graph = Some("pseudotree")
    /\ dargs.algo = Some("maxsum")
    /\ dpc = "exited"
    /\ graph_module = Some("pseudotree")
    /\ cg = None

\* Only --graph was given and distribute has been called.
C12_WitnessGraphOnly ==
    /\ dargs.graph # None
    /\ dargs.algo = None
    /\ distCall # None

====
